---- MODULE Spec2Model ----
(***************************************************************************)
(* Script Teleprompter & Voice Recorder (script.js): the production and    *)
(* recording state machines driven by buttons, timers, audio playback and  *)
(* speech-recognition callbacks.                                           *)
(***************************************************************************)
EXTENDS Integers, Sequences, FiniteSets, Bags, TLC

(***************************************************************************)
(* Bounds of the model.                                                    *)
(***************************************************************************)
MaxLines == 2       \* longest script (number of dialogue lines)
MaxTimers == 2      \* pending timers of one kind
MaxClips == 2       \* Audio elements playing at the same time
MaxStarts == 1      \* startRecording calls in progress or left capturing
MaxTakes == 1       \* stopped recordings whose clip is not stored yet
MaxTextLines == 4   \* longest script text (number of text lines)
MaxReads == 2       \* processScript calls awaiting file.text()

Characters == {"ANNA", "BOB"}

\* Dialogue text of the i-th record of the scripts explored.
Texts == <<"What?", "Hello you brave world again">>

\* Transcripts the recogniser may deliver (event.results[0][0].transcript).
Transcripts ==
    {"", "Done", "Next", "again", "the cat sat down",
     "Hello brave world again", "again tell them nothing"}

VARIABLES
    dialogueLines,        \* appState.dialogueLines: <<[character, number, dialogue]>>
    recordCharacters,     \* appState.recordCharacters, in insertion order
    speakCharacters,      \* appState.speakCharacters
    audioRecordings,      \* appState.audioRecordings: character -> (number -> blob)
    playRecordings,       \* checkbox #playRecordings
    liveSpeaking,         \* checkbox #liveSpeaking
    hasRecognition,       \* appState.recognition is not null
    recState,             \* the recogniser: "idle", "started", "stopping"
    resultDelivered,      \* the session in progress has delivered its result
    isProductionMode,     \* appState.isProductionMode
    productionLineIndex,  \* appState.productionLineIndex
    speechTimeout,        \* appState.speechTimeout: "null", "armed", "fired"
    timeoutLine,          \* productionLineIndex when the pending timeout was armed
    timers,               \* pending setTimeout callbacks, in the order they were set
    playing,              \* bag of line numbers whose clip is playing
    buttons,              \* disabled flags of the three production buttons
    shown,                \* last line presented by updateProductionInterface
    lastCommand,          \* last of startProduction/pauseProduction/stopProduction
    clean,                \* a first pass that was never paused, stopped or restarted
    section,              \* the step-section showSection made active
    currentCharacter,     \* appState.currentCharacter ("" for null)
    currentLineIndex,     \* appState.currentLineIndex
    isRecording,          \* appState.isRecording
    recorder,             \* appState.mediaRecorder: its effect and state
    recordBtn,            \* disabled flag of #recordBtn
    starting,             \* startRecording calls awaiting getUserMedia
    orphans,              \* recorders still capturing that appState no longer holds
    stopped,              \* stopped recorders whose onstop has not run yet
    processing,           \* onstop handlers awaiting applyPostProcessingEffects
    inputFile,            \* #scriptInput.files[0]: [name, text], NoFile when empty
    scriptFileName,       \* text of #scriptFileName, set when a file is accepted
    scriptText,           \* appState.scriptText
    characters,           \* appState.characters
    reading               \* processScript calls awaiting file.text()

prodVars == <<recState, resultDelivered, isProductionMode, productionLineIndex,
              speechTimeout, timeoutLine, timers, playing, buttons, shown, lastCommand, clean>>
recVars == <<audioRecordings, section, currentCharacter, currentLineIndex, isRecording,
             recorder, recordBtn, starting, orphans, stopped, processing>>
confVars == <<dialogueLines, recordCharacters, speakCharacters,
              playRecordings, liveSpeaking, hasRecognition>>
uploadVars == <<inputFile, scriptFileName, scriptText, characters, reading>>
vars == <<confVars, prodVars, recVars, uploadVars>>

(***************************************************************************)
(* String functions of JavaScript used by the handlers.                    *)
(***************************************************************************)
RECURSIVE toLowerCase(_)
lowerChar(c) ==
    CASE c = "A" -> "a" [] c = "B" -> "b" [] c = "C" -> "c" [] c = "D" -> "d"
      [] c = "E" -> "e" [] c = "F" -> "f" [] c = "G" -> "g" [] c = "H" -> "h"
      [] c = "I" -> "i" [] c = "J" -> "j" [] c = "K" -> "k" [] c = "L" -> "l"
      [] c = "M" -> "m" [] c = "N" -> "n" [] c = "O" -> "o" [] c = "P" -> "p"
      [] c = "Q" -> "q" [] c = "R" -> "r" [] c = "S" -> "s" [] c = "T" -> "t"
      [] c = "U" -> "u" [] c = "V" -> "v" [] c = "W" -> "w" [] c = "X" -> "x"
      [] c = "Y" -> "y" [] c = "Z" -> "z"
      [] OTHER -> c
toLowerCase(s) ==
    IF Len(s) = 0 THEN ""
    ELSE lowerChar(SubSeq(s, 1, 1)) \o toLowerCase(SubSeq(s, 2, Len(s)))

\* String.prototype.includes
includes(s, w) ==
    \E i \in 1..(Len(s) + 1) : i + Len(w) - 1 <= Len(s) /\ SubSeq(s, i, i + Len(w) - 1) = w

\* String.prototype.split(' ')
RECURSIVE split(_)
split(s) ==
    IF \E i \in 1..Len(s) : SubSeq(s, i, i) = " "
    THEN LET k == CHOOSE i \in 1..Len(s) :
                    /\ SubSeq(s, i, i) = " "
                    /\ \A j \in 1..(i - 1) : SubSeq(s, j, j) # " "
         IN  <<SubSeq(s, 1, k - 1)>> \o split(SubSeq(s, k + 1, Len(s)))
    ELSE <<s>>

\* result.trim().length
trimLength(s) ==
    LET nonSpace == {i \in 1..Len(s) : SubSeq(s, i, i) # " "}
    IN  IF nonSpace = {} THEN 0
        ELSE (CHOOSE i \in nonSpace : \A j \in nonSpace : j <= i)
             - (CHOOSE i \in nonSpace : \A j \in nonSpace : i <= j) + 1

\* Array.prototype.filter(word => word.length > 3)
significant(ws) == SelectSeq(ws, LAMBDA w : Len(w) > 3)

seqIncludes(ws, w) == \E i \in 1..Len(ws) : ws[i] = w

completionWords == <<"done", "finished", "complete", "next", "advance", "continue">>

hasCompletionWord(result) ==
    \E i \in 1..Len(completionWords) : includes(result, completionWords[i])

\* The transcripts in which onresult finds no completion word.
PlainTranscripts == {t \in Transcripts : ~hasCompletionWord(toLowerCase(t))}

\* Variant of the dialogue-match test that accepts one matching word whatever
\* the number of spoken words.
dialogueMatches_OneWordSuffices(dialogue, result) ==
    LET dialogueWords == significant(split(toLowerCase(dialogue)))
        spokenWords == significant(split(result))
        matchingWords == SelectSeq(spokenWords, LAMBDA w : seqIncludes(dialogueWords, w))
        isVeryShortDialogue == Len(split(dialogue)) <= 2
    IN  \/ Len(matchingWords) >= 1
        \/ (isVeryShortDialogue /\ trimLength(result) > 0)

\* The dialogue-match test of recognition.onresult.
dialogueMatches(dialogue, result) ==
    LET dialogueWords == significant(split(toLowerCase(dialogue)))
        spokenWords == significant(split(result))
        matchingWords == SelectSeq(spokenWords, LAMBDA w : seqIncludes(dialogueWords, w))
        isVeryShortDialogue == Len(split(dialogue)) <= 2
    IN  \/ Len(matchingWords) >= 2
        \/ (Len(matchingWords) >= 1 /\ Len(spokenWords) <= 3)
        \/ (isVeryShortDialogue /\ trimLength(result) > 0)

(***************************************************************************)
(* The script parser: parseDialogue and its line predicates.               *)
(***************************************************************************)
charAt(s, i) == IF i \in 1..Len(s) THEN SubSeq(s, i, i) ELSE ""

\* [A-Z]
UpperLetters ==
    {"A", "B", "C", "D", "E", "F", "G", "H", "I", "J", "K", "L", "M",
     "N", "O", "P", "Q", "R", "S", "T", "U", "V", "W", "X", "Y", "Z"}

isUpper(c) == c \in UpperLetters

\* \d
isDigit(c) == c \in {"0", "1", "2", "3", "4", "5", "6", "7", "8", "9"}

\* \s
isSpace(c) == c \in {" ", "\t", "\n", "\r"}

\* String.prototype.startsWith / endsWith
startsWith(s, w) == Len(w) <= Len(s) /\ SubSeq(s, 1, Len(w)) = w

endsWith(s, w) == Len(w) <= Len(s) /\ SubSeq(s, Len(s) - Len(w) + 1, Len(s)) = w

\* String.prototype.trim
trim(s) ==
    LET nonSpace == {i \in 1..Len(s) : ~isSpace(SubSeq(s, i, i))}
    IN  IF nonSpace = {} THEN ""
        ELSE SubSeq(s, CHOOSE i \in nonSpace : \A j \in nonSpace : i <= j,
                       CHOOSE i \in nonSpace : \A j \in nonSpace : j <= i)

\* String.prototype.split('\n')
RECURSIVE splitLines(_)
splitLines(s) ==
    IF \E i \in 1..Len(s) : SubSeq(s, i, i) = "\n"
    THEN LET k == CHOOSE i \in 1..Len(s) :
                    /\ SubSeq(s, i, i) = "\n"
                    /\ \A j \in 1..(i - 1) : SubSeq(s, j, j) # "\n"
         IN  <<SubSeq(s, 1, k - 1)>> \o splitLines(SubSeq(s, k + 1, Len(s)))
    ELSE <<s>>

\* Array.prototype.some(word => s.includes(word))
includesSome(s, ws) == \E i \in 1..Len(ws) : includes(s, ws[i])

\* length of the longest prefix of s from position i made of characters of a class
RECURSIVE upperRun(_, _)
upperRun(s, i) == IF isUpper(charAt(s, i)) THEN 1 + upperRun(s, i + 1) ELSE 0

RECURSIVE spaceRun(_, _)
spaceRun(s, i) == IF isSpace(charAt(s, i)) THEN 1 + spaceRun(s, i + 1) ELSE 0

\* /^[A-Z]+$/
allCapsWord(w) == Len(w) >= 1 /\ upperRun(w, 1) = Len(w)

\* /^[A-Z\s]+$/
capsAndSpaces(s) ==
    Len(s) >= 1 /\ \A i \in 1..Len(s) : isUpper(SubSeq(s, i, i)) \/ isSpace(SubSeq(s, i, i))

\* /^(INT\.|EXT\.)/
isSceneHeading(line) == startsWith(line, "INT.") \/ startsWith(line, "EXT.")

\* /^[A-Z]+,\s*\d+/ or /^[A-Z]+\s+\(/
isCharacterDescription(line) ==
    LET k == upperRun(line, 1)
    IN  /\ k >= 1
        /\ \/ /\ charAt(line, k + 1) = ","
              /\ isDigit(charAt(line, k + 2 + spaceRun(line, k + 2)))
           \/ /\ spaceRun(line, k + 1) >= 1
              /\ charAt(line, k + 1 + spaceRun(line, k + 1)) = "("

isCharacterNameDirect(line) ==
    LET words == split(line)
        actionWords == <<"THE", "AND", "OR", "BUT", "WITH", "FROM", "INTO", "UPON", "UNDER", "OVER">>
    IN  IF Len(words) >= 1 /\ Len(words) <= 4
        THEN /\ \A i \in 1..Len(words) :
                    allCapsWord(words[i]) /\ Len(words[i]) > 1 /\ Len(words[i]) <= 15
             /\ ~\E i \in 1..Len(words) : seqIncludes(actionWords, words[i])
        ELSE FALSE

isActionLine(line) ==
    LET actionWords == <<"sits", "stands", "walks", "approaches", "looks", "turns", "takes",
                         "places", "rushes", "enjoy", "typing", "laptop">>
    IN  includesSome(toLowerCase(line), actionWords) /\ ~isCharacterNameDirect(line)

isCharacterName(line) ==
    IF isSceneHeading(line) \/ isCharacterDescription(line)
    THEN FALSE
    ELSE isCharacterNameDirect(line)

isDialogue(line) ==
    LET lower == toLowerCase(line)
        stageDirectionWords ==
            <<"considers", "eyes", "light", "up", "places", "sits", "approaches", "looks",
              "turns", "takes", "rushes", "enjoy", "typing", "laptop", "fade", "end",
              "continues", "moves", "walks", "stands", "enters", "exits">>
        isStageDirection ==
            \/ /\ includesSome(lower, stageDirectionWords)
               /\ includes(line, "s") /\ includes(lower, "s")
            \/ includes(lower, "this")
            \/ includes(lower, "moment")
            \/ includes(lower, "eyes")
            \/ includes(lower, "light")
        dialogueWords ==
            <<"I", "you", "the", "a", "an", "and", "or", "but", "thanks", "hey", "hello",
              "yes", "no", "well", "okay", "sure", "really", "what", "how", "why", "when", "where">>
        hasDialogueWords ==
            \E i \in 1..Len(dialogueWords) : includes(lower, toLowerCase(dialogueWords[i]))
        notAllCaps == ~capsAndSpaces(line) \/ Len(line) < 10
        hasDialoguePatterns ==
            \/ includes(line, "?") \/ includes(line, "!") \/ includes(line, ".")
            \/ includesSome(lower, <<"i ", "you ", "the ", "a ", "an ", "and ">>)
    IN  IF isSceneHeading(line) \/ isCharacterDescription(line) \/ isCharacterNameDirect(line)
        THEN FALSE
        ELSE IF isStageDirection THEN FALSE
        ELSE IF capsAndSpaces(line) /\ Len(line) > 3 THEN FALSE
        ELSE hasDialogueWords /\ notAllCaps /\ hasDialoguePatterns /\ Len(line) > 0

\* text.split('\n').map(line => line.trim()).filter(line => line.length > 0)
textLinesOf(text) ==
    LET raw == splitLines(text)
    IN  SelectSeq([i \in 1..Len(raw) |-> trim(raw[i])], LAMBDA l : Len(l) > 0)

\* Variant of the loop that adds a character to the set when its name line
\* is read, before any dialogue of it.
RECURSIVE parseFrom_AddsNamedCharacter(_, _, _, _, _, _)
parseFrom_AddsNamedCharacter(textLines, i, current, lines, chars, lineNumber) ==
    IF i > Len(textLines)
    THEN [lines |-> lines, characters |-> chars]
    ELSE LET line == textLines[i]
         IN  IF isSceneHeading(line) \/ isActionLine(line) \/ isCharacterDescription(line)
             THEN parseFrom_AddsNamedCharacter(textLines, i + 1, "", lines, chars, lineNumber)
             ELSE IF isCharacterName(line)
             THEN parseFrom_AddsNamedCharacter(textLines, i + 1, trim(line), lines,
                                               chars \cup {trim(line)}, lineNumber)
             ELSE IF current # "" /\ isDialogue(line)
             THEN parseFrom_AddsNamedCharacter(textLines, i + 1, current,
                            Append(lines, [character |-> current,
                                           number |-> lineNumber,
                                           dialogue |-> line]),
                            chars \cup {current}, lineNumber + 1)
             ELSE parseFrom_AddsNamedCharacter(textLines, i + 1, current, lines, chars, lineNumber)

\* The loop of parseDialogue from text line i on: current is its
\* currentCharacter, lines and chars are what it has accumulated.
RECURSIVE parseFrom(_, _, _, _, _, _)
parseFrom(textLines, i, current, lines, chars, lineNumber) ==
    IF i > Len(textLines)
    THEN [lines |-> lines, characters |-> chars]
    ELSE LET line == textLines[i]
         IN  IF isSceneHeading(line) \/ isActionLine(line) \/ isCharacterDescription(line)
             THEN parseFrom(textLines, i + 1, "", lines, chars, lineNumber)
             ELSE IF isCharacterName(line)
             THEN parseFrom(textLines, i + 1, trim(line), lines, chars, lineNumber)
             ELSE IF current # "" /\ isDialogue(line)
             THEN parseFrom(textLines, i + 1, current,
                            Append(lines, [character |-> current,
                                           number |-> lineNumber,
                                           dialogue |-> line]),
                            chars \cup {current}, lineNumber + 1)
             ELSE parseFrom(textLines, i + 1, current, lines, chars, lineNumber)

\* Variant of parseDialogue whose line counter starts at 0.
parseDialogue_NumbersFromZero(text, fileName) == parseFrom(textLinesOf(text), 1, "", <<>>, {}, 0)

parseDialogue(text, fileName) == parseFrom(textLinesOf(text), 1, "", <<>>, {}, 1)

(***************************************************************************)
(* Configurations explored: scripts, character selections, stored clips.   *)
(***************************************************************************)
Script(chars) ==
    [i \in 1..Len(chars) |->
        [character |-> chars[i], number |-> i,
         dialogue |-> Texts[((i - 1) % Len(Texts)) + 1]]]

\* The characters are interchangeable: a script opens with ANNA.
Scripts ==
    {Script(cs) : cs \in {c \in UNION {[1..n -> Characters] : n \in 0..MaxLines} :
                              Len(c) > 0 => c[1] = "ANNA"}}

\* The playback section is reached through a recording session, which
\* startRecordingSession opens only with a record character selected.
RecordChoices == {<<"ANNA">>, <<"BOB">>, <<"ANNA", "BOB">>}

Range(f) == {f[i] : i \in DOMAIN f}

\* Set.prototype.has on the insertion-ordered recordCharacters
recordHas(c) == c \in Range(recordCharacters)

linesOf(lines, c) == SelectSeq(lines, LAMBDA l : l.character = c)

\* A clip: the line that was current when its recording was stopped (what
\* the clip holds), whether the effect was applied to it, and the line that
\* was current when onstop ran.
Blob(c, n, processed, seen) ==
    [character |-> c, number |-> n, processed |-> processed, seen |-> seen]

Pair(c, n) == [character |-> c, number |-> n]

\* Clips a finished recording session can have left: a map for every record
\* character (handleCharacterSelection), holding clips of some of its lines.
ClipMaps(lines, rec) ==
    {m \in [Range(rec) -> SUBSET (1..Len(lines))] :
        \A c \in Range(rec) : \A n \in m[c] : lines[n].character = c}

Recordings(lines, rec) ==
    {[c \in Range(rec) |-> [n \in m[c] |-> Blob(c, n, FALSE, Pair(c, n))]] :
        m \in ClipMaps(lines, rec)}

\* audioRecordings.get(character)?.get(number) is a blob
hasClip(recs, c, n) == c \in DOMAIN recs /\ n \in DOMAIN recs[c]

(***************************************************************************)
(* Timers.  A pending callback is named by what it runs: "update"          *)
(* (updateProductionInterface), "advance" (advanceProductionLine after a   *)
(* dialogue match), "restart" (restart of recognition), "timeout" (the     *)
(* speech timeout) and "nextLine" (nextLine after a recording stopped).    *)
(***************************************************************************)
UpdateDelay == 500
AdvanceDelay == 1000
RestartDelay == 100
SpeechTimeoutDelay == 30000
NextLineDelay == 1000

delay(kind) ==
    CASE kind = "update" -> UpdateDelay
      [] kind = "advance" -> AdvanceDelay
      [] kind = "restart" -> RestartDelay
      [] kind = "timeout" -> SpeechTimeoutDelay
      [] kind = "nextLine" -> NextLineDelay

pending(q, kind) == Cardinality({i \in 1..Len(q) : q[i] = kind})

without(q, i) == SubSeq(q, 1, i - 1) \o SubSeq(q, i + 1, Len(q))

\* clearTimeout
cancel(q, kind) == SelectSeq(q, LAMBDA k : k # kind)

\* A callback runs before every callback set after it with the same or a
\* longer delay: the i-th pending callback may run when no callback set
\* before it has a delay as short.
due(q, i) == \A j \in 1..(i - 1) : delay(q[j]) > delay(q[i])

(***************************************************************************)
(* The production state the handlers read and write, as one record.        *)
(***************************************************************************)
Cur ==
    [isProductionMode |-> isProductionMode,
     productionLineIndex |-> productionLineIndex,
     recState |-> recState, resultDelivered |-> resultDelivered,
     speechTimeout |-> speechTimeout, timeoutLine |-> timeoutLine,
     timers |-> timers, playing |-> playing,
     buttons |-> buttons, shown |-> shown,
     audioRecordings |-> audioRecordings, section |-> section,
     currentCharacter |-> currentCharacter, currentLineIndex |-> currentLineIndex,
     isRecording |-> isRecording, recorder |-> recorder, recordBtn |-> recordBtn,
     starting |-> starting, orphans |-> orphans,
     stopped |-> stopped, processing |-> processing]

\* recognition.start(): throws InvalidStateError (caught by the callers in
\* production) unless the recogniser is idle.
recognitionStart(a) ==
    IF hasRecognition /\ a.recState = "idle"
    THEN [a EXCEPT !.recState = "started", !.resultDelivered = FALSE]
    ELSE a

\* if (appState.recognition) appState.recognition.stop()
recognitionStop(a) ==
    IF hasRecognition /\ a.recState = "started"
    THEN [a EXCEPT !.recState = "stopping"]
    ELSE a

\* if (appState.speechTimeout) { clearTimeout(...); appState.speechTimeout = null }
clearSpeechTimeout(a) ==
    IF a.speechTimeout # "null"
    THEN [a EXCEPT !.speechTimeout = "null", !.timeoutLine = 0,
                   !.timers = cancel(@, "timeout")]
    ELSE a

advanceProductionLine(a) ==
    [recognitionStop(a) EXCEPT
        !.productionLineIndex = @ + 1,
        !.timers = Append(@, "update")]

playAudioBlob(a, n) == [a EXCEPT !.playing = @ (+) SetToBag({n})]

\* Variant of lineBranch that tests the live branch first.
lineBranch_LiveFirst(line) ==
    IF liveSpeaking /\ line.character \in speakCharacters THEN "live"
    ELSE IF playRecordings /\ recordHas(line.character) THEN "recorded"
    ELSE "skip"

\* the branch updateProductionInterface takes for a line
lineBranch(line) ==
    IF playRecordings /\ recordHas(line.character) THEN "recorded"
    ELSE IF liveSpeaking /\ line.character \in speakCharacters THEN "live"
    ELSE "skip"

\* Variant of updateProductionInterface whose skip branch shows the line and then waits like the live branch.
updateProductionInterface_SkipWaits(a) ==
    IF a.productionLineIndex >= Len(dialogueLines)
    THEN [clearSpeechTimeout(recognitionStop(a)) EXCEPT
            !.isProductionMode = FALSE,
            !.buttons = [start |-> FALSE, pause |-> TRUE, stop |-> TRUE]]
    ELSE LET currentLine == dialogueLines[a.productionLineIndex + 1]
             b == [a EXCEPT !.shown = a.productionLineIndex]
         IN  CASE lineBranch(currentLine) = "recorded" ->
                    IF hasClip(a.audioRecordings, currentLine.character, currentLine.number)
                    THEN playAudioBlob(b, currentLine.number)
                    ELSE advanceProductionLine(b)
               [] lineBranch(currentLine) = "live" -> recognitionStart(b)
               [] OTHER -> recognitionStart(b)

updateProductionInterface(a) ==
    IF a.productionLineIndex >= Len(dialogueLines)
    THEN [clearSpeechTimeout(recognitionStop(a)) EXCEPT
            !.isProductionMode = FALSE,
            !.buttons = [start |-> FALSE, pause |-> TRUE, stop |-> TRUE]]
    ELSE LET currentLine == dialogueLines[a.productionLineIndex + 1]
             b == [a EXCEPT !.shown = a.productionLineIndex]
         IN  CASE lineBranch(currentLine) = "recorded" ->
                    IF hasClip(a.audioRecordings, currentLine.character, currentLine.number)
                    THEN playAudioBlob(b, currentLine.number)
                    ELSE advanceProductionLine(b)
               [] lineBranch(currentLine) = "live" -> recognitionStart(b)
               [] OTHER -> advanceProductionLine(b)

startProduction(a) ==
    updateProductionInterface(
        [a EXCEPT !.isProductionMode = TRUE,
                  !.productionLineIndex = 0,
                  !.buttons = [start |-> TRUE, pause |-> FALSE, stop |-> FALSE]])

pauseProduction(a) ==
    [a EXCEPT !.isProductionMode = FALSE,
              !.buttons = [@ EXCEPT !.start = FALSE, !.pause = TRUE]]

stopProduction(a) ==
    updateProductionInterface(
        [clearSpeechTimeout(recognitionStop(a)) EXCEPT
            !.isProductionMode = FALSE,
            !.productionLineIndex = 0,
            !.buttons = [start |-> FALSE, pause |-> TRUE, stop |-> TRUE]])

\* speakCharacters.has(dialogueLines[productionLineIndex]?.character)
currentIsSpeak(a) ==
    /\ a.productionLineIndex < Len(dialogueLines)
    /\ dialogueLines[a.productionLineIndex + 1].character \in speakCharacters

(***************************************************************************)
(* Recording.                                                              *)
(***************************************************************************)
NoRecorder == [effect |-> "none", state |-> "null"]

Effects == {"none", "male"}

\* characterLines[appState.currentLineIndex].number, 0 when there is no such line
recordingLineNumber(a) ==
    LET characterLines == linesOf(dialogueLines, a.currentCharacter)
    IN  IF a.currentLineIndex < Len(characterLines)
        THEN characterLines[a.currentLineIndex + 1].number
        ELSE 0

currentPair(a) == Pair(a.currentCharacter, recordingLineNumber(a))

stopRecording(a) ==
    IF a.recorder.state # "null" /\ a.isRecording
    THEN [recognitionStop(a) EXCEPT
            !.stopped = Append(@, [effect |-> a.recorder.effect, at |-> currentPair(a)]),
            !.recorder = [@ EXCEPT !.state = "inactive"],
            !.isRecording = FALSE,
            !.recordBtn = FALSE,
            !.timers = Append(@, "nextLine")]
    ELSE a

\* appState.audioRecordings.get(appState.currentCharacter).set(number, blob);
\* a TypeError (no such line, no map for the character) stores nothing
storeRecording(a, number, blob) ==
    IF number # 0 /\ a.currentCharacter \in DOMAIN a.audioRecordings
    THEN LET m == a.audioRecordings[a.currentCharacter]
         IN  [a EXCEPT !.audioRecordings[a.currentCharacter] =
                          [n \in DOMAIN m \cup {number} |-> IF n = number THEN blob ELSE m[n]]]
    ELSE a

\* mediaRecorder.onstop up to its await: the line is looked up here
onstop(a, i) ==
    LET r == a.stopped[i]
        b == [a EXCEPT !.stopped = without(@, i)]
        number == recordingLineNumber(b)
    IN  IF r.effect = "none"
        THEN storeRecording(b, number,
                 Blob(r.at.character, r.at.number, FALSE, currentPair(b)))
        ELSE [b EXCEPT !.processing =
                 Append(@, [effect |-> r.effect, number |-> number, at |-> r.at,
                            seen |-> currentPair(b)])]

\* mediaRecorder.onstop after its await: applyPostProcessingEffects resolved
\* (ok) or threw, and the clip is stored for the character that is current now
onstopResumed(a, i, ok) ==
    LET q == a.processing[i]
        b == [a EXCEPT !.processing = without(@, i)]
    IN  storeRecording(b, q.number, Blob(q.at.character, q.at.number, ok, q.seen))

\* startRecording once getUserMedia has resolved
startRecording(a, effect) ==
    [recognitionStart(a) EXCEPT
        !.starting = @ - 1,
        !.orphans = IF a.recorder.state = "recording" THEN @ + 1 ELSE @,
        !.recorder = [effect |-> effect, state |-> "recording"],
        !.isRecording = TRUE,
        !.recordBtn = TRUE]

indexOf(q, x) ==
    IF \E i \in 1..Len(q) : q[i] = x
    THEN (CHOOSE i \in 1..Len(q) : q[i] = x /\ \A j \in 1..(i - 1) : q[j] # x) - 1
    ELSE -1

finishRecordingSession(a) == [a EXCEPT !.section = "playback"]

\* Variant of nextLine that takes one step too many within a character.
nextLine_PastLastLine(a) ==
    LET characterLines == linesOf(dialogueLines, a.currentCharacter)
        currentIndex == indexOf(recordCharacters, a.currentCharacter)
    IN  IF a.currentLineIndex < Len(characterLines)
        THEN [a EXCEPT !.currentLineIndex = @ + 1]
        ELSE IF currentIndex < Len(recordCharacters) - 1
             THEN [a EXCEPT !.currentCharacter = recordCharacters[currentIndex + 2],
                            !.currentLineIndex = 0]
             ELSE finishRecordingSession(a)

nextLine(a) ==
    LET characterLines == linesOf(dialogueLines, a.currentCharacter)
        currentIndex == indexOf(recordCharacters, a.currentCharacter)
    IN  IF a.currentLineIndex < Len(characterLines) - 1
        THEN [a EXCEPT !.currentLineIndex = @ + 1]
        ELSE IF currentIndex < Len(recordCharacters) - 1
             THEN [a EXCEPT !.currentCharacter = recordCharacters[currentIndex + 2],
                            !.currentLineIndex = 0]
             ELSE finishRecordingSession(a)

previousLine(a) ==
    IF a.currentLineIndex > 0 THEN [a EXCEPT !.currentLineIndex = @ - 1] ELSE a

rerecordLine(a) ==
    LET number == recordingLineNumber(a)
    IN  IF number # 0 /\ a.currentCharacter \in DOMAIN a.audioRecordings
        THEN LET m == a.audioRecordings[a.currentCharacter]
             IN  [a EXCEPT !.audioRecordings[a.currentCharacter] =
                              [n \in DOMAIN m \ {number} |-> m[n]]]
        ELSE a

startRecordingSession(a) ==
    IF Len(recordCharacters) = 0
    THEN a
    ELSE [a EXCEPT !.currentCharacter = recordCharacters[1],
                   !.currentLineIndex = 0,
                   !.section = "recording"]

\* recognition.onresult
onresult(a, transcript) ==
    LET result == toLowerCase(transcript)
        b == clearSpeechTimeout([a EXCEPT !.resultDelivered = TRUE])
    IN  IF b.isRecording /\ hasCompletionWord(result)
        THEN stopRecording(b)
        ELSE IF b.isProductionMode /\ hasCompletionWord(result)
        THEN advanceProductionLine(b)
        ELSE IF b.isProductionMode /\ currentIsSpeak(b)
                  /\ dialogueMatches(dialogueLines[b.productionLineIndex + 1].dialogue, result)
             THEN [b EXCEPT !.timers = Append(@, "advance")]
             ELSE b

\* recognition.onend.  Its two callbacks are set in the same call, so the
\* 100 ms restart precedes the 30 s timeout among the pending callbacks.
onend(a) ==
    LET b == [a EXCEPT !.recState = "idle", !.resultDelivered = FALSE]
    IN  IF b.isProductionMode /\ currentIsSpeak(b)
        THEN [b EXCEPT !.speechTimeout = "armed",
                       !.timeoutLine = b.productionLineIndex,
                       !.timers = Append(Append(cancel(@, "timeout"), "restart"), "timeout")]
        ELSE b

\* the 30 s callback armed by onend
speechTimeoutCallback(a) ==
    LET b == [a EXCEPT !.speechTimeout = "fired", !.timeoutLine = 0]
    IN  IF b.isProductionMode /\ currentIsSpeak(b) THEN advanceProductionLine(b) ELSE b

\* the 100 ms callback armed by onend; recognition.state is not a property of
\* SpeechRecognition, so the test state !== 'started' is always true
restartCallback(a) ==
    IF a.isProductionMode THEN recognitionStart(a) ELSE a

(***************************************************************************)
(* Actions.                                                                *)
(***************************************************************************)
Commit(a, command) ==
    /\ \A kind \in {"update", "advance", "restart"} : pending(a.timers, kind) <= MaxTimers
    /\ pending(a.timers, "nextLine") <= MaxTakes
    /\ BagCardinality(a.playing) <= MaxClips
    /\ a.starting + a.orphans <= MaxStarts
    /\ Len(a.stopped) + Len(a.processing) <= MaxTakes
    /\ isProductionMode' = a.isProductionMode
    /\ productionLineIndex' = a.productionLineIndex
    /\ recState' = a.recState
    /\ resultDelivered' = a.resultDelivered
    /\ speechTimeout' = a.speechTimeout
    /\ timeoutLine' = a.timeoutLine
    /\ timers' = a.timers
    /\ playing' = a.playing
    /\ buttons' = a.buttons
    /\ shown' = a.shown
    /\ audioRecordings' = a.audioRecordings
    /\ section' = a.section
    /\ currentCharacter' = a.currentCharacter
    /\ currentLineIndex' = a.currentLineIndex
    /\ isRecording' = a.isRecording
    /\ recorder' = a.recorder
    /\ recordBtn' = a.recordBtn
    /\ starting' = a.starting
    /\ orphans' = a.orphans
    /\ stopped' = a.stopped
    /\ processing' = a.processing
    /\ lastCommand' = IF command = "" THEN lastCommand ELSE command
    /\ clean' = CASE command = "" -> clean
                  [] command = "start" -> lastCommand = "none"
                  [] OTHER -> FALSE
    /\ UNCHANGED <<confVars, uploadVars>>

StartProduction ==
    /\ section = "playback"
    /\ ~buttons.start
    /\ Commit(startProduction(Cur), "start")

PauseProduction ==
    /\ section = "playback"
    /\ ~buttons.pause
    /\ Commit(pauseProduction(Cur), "pause")

StopProduction ==
    /\ section = "playback"
    /\ ~buttons.stop
    /\ Commit(stopProduction(Cur), "stop")

\* The pending callback of a kind that is due, taken off the timers.
Fired(kind, i) ==
    /\ timers[i] = kind
    /\ due(timers, i)

UpdateTimer ==
    \E i \in 1..Len(timers) :
        /\ Fired("update", i)
        /\ Commit(updateProductionInterface([Cur EXCEPT !.timers = without(@, i)]), "")

AdvanceTimer ==
    \E i \in 1..Len(timers) :
        /\ Fired("advance", i)
        /\ Commit(advanceProductionLine([Cur EXCEPT !.timers = without(@, i)]), "")

RestartTimer ==
    \E i \in 1..Len(timers) :
        /\ Fired("restart", i)
        /\ Commit(restartCallback([Cur EXCEPT !.timers = without(@, i)]), "")

SpeechTimeout ==
    \E i \in 1..Len(timers) :
        /\ Fired("timeout", i)
        /\ Commit(speechTimeoutCallback([Cur EXCEPT !.timers = without(@, i)]), "")

AudioEnded ==
    \E n \in BagToSet(playing) :
        Commit(advanceProductionLine([Cur EXCEPT !.playing = @ (-) SetToBag({n})]), "")

AudioError ==
    \E n \in BagToSet(playing) :
        Commit(advanceProductionLine([Cur EXCEPT !.playing = @ (-) SetToBag({n})]), "")

RecognitionResult ==
    /\ recState \in {"started", "stopping"}
    /\ ~resultDelivered
    /\ \E t \in Transcripts : Commit(onresult(Cur, t), "")

RecognitionEnd ==
    /\ recState \in {"started", "stopping"}
    /\ Commit(onend(Cur), "")

\* Recording-section buttons and callbacks.
StartRecordingSession ==
    /\ section = "character"
    /\ Commit(startRecordingSession(Cur), "")

StartRecordingClick ==
    /\ section = "recording"
    /\ ~recordBtn
    /\ Commit([Cur EXCEPT !.starting = @ + 1], "")

GetUserMediaResolved ==
    /\ starting > 0
    /\ \E e \in Effects : Commit(startRecording(Cur, e), "")

GetUserMediaRejected ==
    /\ starting > 0
    /\ Commit([Cur EXCEPT !.starting = @ - 1], "")

StopRecordingClick ==
    /\ section = "recording"
    /\ isRecording
    /\ Commit(stopRecording(Cur), "")

RecorderStopped ==
    \E i \in 1..Len(stopped) : Commit(onstop(Cur, i), "")

PostProcessingSettled ==
    \E i \in 1..Len(processing) : \E ok \in BOOLEAN : Commit(onstopResumed(Cur, i, ok), "")

NextLineTimer ==
    \E i \in 1..Len(timers) :
        /\ Fired("nextLine", i)
        /\ Commit(nextLine([Cur EXCEPT !.timers = without(@, i)]), "")

\* #nextLineBtn is disabled on the last line of the character
NextLineClick ==
    /\ section = "recording"
    /\ currentLineIndex # Len(linesOf(dialogueLines, currentCharacter)) - 1
    /\ Commit(nextLine(Cur), "")

SkipLineClick ==
    /\ section = "recording"
    /\ Commit(nextLine(Cur), "")

\* #prevLineBtn is disabled on the first line of the character
PreviousLineClick ==
    /\ section = "recording"
    /\ currentLineIndex # 0
    /\ Commit(previousLine(Cur), "")

RerecordLineClick ==
    /\ section = "recording"
    /\ hasClip(audioRecordings, currentCharacter, recordingLineNumber(Cur))
    /\ Commit(rerecordLine(Cur), "")

FinishRecordingClick ==
    /\ section = "recording"
    /\ Commit(finishRecordingSession(Cur), "")

(***************************************************************************)
(* Script upload.                                                          *)
(***************************************************************************)
NoFile == [name |-> "", text |-> ""]

isSupportedFile(file) ==
    LET supportedTypes == <<".txt", ".fountain">>
        fileName == toLowerCase(file.name)
    IN  \E i \in 1..Len(supportedTypes) : endsWith(fileName, supportedTypes[i])

\* Array.prototype.join('\n')
RECURSIVE joinLines(_)
joinLines(ls) ==
    IF Len(ls) = 0 THEN ""
    ELSE IF Len(ls) = 1 THEN ls[1]
    ELSE ls[1] \o "\n" \o joinLines(Tail(ls))

\* Lines the script texts explored are made of.
TextLinePool ==
    {"ANNA", "BOB", "Hello there.", "  What?", "I enjoy it.",
     "INT. ROOM", "ANNA: Hi you.", "ANNA, 28 years"}

ScriptTexts ==
    {joinLines(ls) : ls \in UNION {[1..n -> TextLinePool] : n \in 1..MaxTextLines}}

\* Files the user can select or drop.
Files ==
    {[name |-> "play.txt", text |-> "ANNA\nHello there.\nBOB\n  What?"],
     [name |-> "Scene.FOUNTAIN", text |-> "BOB\nHello there."],
     [name |-> "notes.pdf", text |-> "ANNA\n  What?"]}

\* handleScriptUpload: the change event of #scriptInput, whose files are now
\* the selection (none when the dialog was cancelled)
SelectFile ==
    /\ section = "upload"
    /\ \E f \in Files \cup {NoFile} :
          /\ inputFile' = f
          /\ scriptFileName' = IF f # NoFile /\ isSupportedFile(f) THEN f.name
                               ELSE scriptFileName
    /\ UNCHANGED <<confVars, prodVars, recVars, scriptText, characters, reading>>

\* handleFileDrop: the drop event of #uploadArea (NoFile: nothing dropped)
DropFile ==
    /\ section = "upload"
    /\ \E f \in Files \cup {NoFile} :
          scriptFileName' = IF f # NoFile /\ isSupportedFile(f) THEN f.name
                            ELSE scriptFileName
    /\ UNCHANGED <<confVars, prodVars, recVars, inputFile, scriptText, characters, reading>>

\* processScript up to its await; without a file in #scriptInput it shows an
\* error message and returns.  Clicks are explored once handleScriptFile has
\* revealed #scriptInfo, which holds for any place of the button in the page.
ProcessScriptClick ==
    /\ section = "upload"
    /\ scriptFileName # ""
    /\ inputFile # NoFile
    /\ Len(reading) < MaxReads
    /\ reading' = Append(reading, inputFile)
    /\ UNCHANGED <<confVars, prodVars, recVars, inputFile, scriptFileName, scriptText, characters>>

\* processScript after file.text() has resolved
FileTextResolved ==
    /\ reading # <<>>
    /\ LET file == Head(reading)
           processedData == parseDialogue(file.text, file.name)
       IN  /\ scriptText' = file.text
           /\ dialogueLines' = processedData.lines
           /\ characters' = processedData.characters
    /\ reading' = Tail(reading)
    /\ section' = "character"
    /\ UNCHANGED <<recordCharacters, speakCharacters, playRecordings, liveSpeaking,
                   hasRecognition, prodVars, audioRecordings, currentCharacter,
                   currentLineIndex, isRecording, recorder, recordBtn, starting, orphans,
                   stopped, processing, inputFile, scriptFileName>>

scriptCharacters(lines) == {lines[i].character : i \in 1..Len(lines)}

InitProduction ==
    /\ recState = "idle"
    /\ resultDelivered = FALSE
    /\ isProductionMode = FALSE
    /\ productionLineIndex = 0
    /\ speechTimeout = "null"
    /\ timeoutLine = 0
    /\ timers = <<>>
    /\ playing = EmptyBag
    /\ buttons = [start |-> FALSE, pause |-> TRUE, stop |-> TRUE]
    /\ shown = -1
    /\ lastCommand = "none"
    /\ clean = TRUE

InitRecording ==
    /\ currentLineIndex = 0
    /\ isRecording = FALSE
    /\ recorder = NoRecorder
    /\ recordBtn = FALSE
    /\ starting = 0
    /\ orphans = 0
    /\ stopped = <<>>
    /\ processing = <<>>

\* A script text whose records are the given lines.
RECURSIVE Render(_)
Render(lines) ==
    IF Len(lines) = 0 THEN ""
    ELSE Head(lines).character \o "\n" \o Head(lines).dialogue
         \o (IF Len(lines) = 1 THEN "" ELSE "\n" \o Render(Tail(lines)))

\* The script of dialogueLines has been uploaded and processed.
InitProcessed ==
    /\ inputFile = [name |-> "script.txt", text |-> Render(dialogueLines)]
    /\ scriptFileName = "script.txt"
    /\ scriptText = Render(dialogueLines)
    /\ characters = scriptCharacters(dialogueLines)
    /\ reading = <<>>

\* The playback section after a recording session that left some clips.
Init ==
    /\ dialogueLines \in Scripts
    /\ recordCharacters \in
          {r \in RecordChoices : Range(r) \subseteq scriptCharacters(dialogueLines)}
    /\ speakCharacters \in SUBSET scriptCharacters(dialogueLines)
    /\ audioRecordings \in Recordings(dialogueLines, recordCharacters)
    /\ playRecordings \in BOOLEAN
    /\ liveSpeaking \in BOOLEAN
    /\ hasRecognition \in BOOLEAN
    /\ section = "playback"
    /\ currentCharacter = recordCharacters[Len(recordCharacters)]
    /\ InitRecording
    /\ InitProduction
    /\ InitProcessed

\* The character section with the record characters selected, in any order.
RecordOrders ==
    {r \in UNION {[1..n -> Characters] : n \in 1..Cardinality(Characters)} :
        \A i, j \in 1..Len(r) : i # j => r[i] # r[j]}

RecInit ==
    /\ dialogueLines \in Scripts
    /\ recordCharacters \in
          {r \in RecordOrders : Range(r) \subseteq scriptCharacters(dialogueLines)}
    /\ speakCharacters = {}
    /\ audioRecordings = [c \in Range(recordCharacters) |-> <<>>]
    /\ playRecordings = TRUE
    /\ liveSpeaking = TRUE
    /\ hasRecognition \in BOOLEAN
    /\ section = "character"
    /\ currentCharacter = ""
    /\ InitRecording
    /\ InitProduction
    /\ InitProcessed

RecNext ==
    \/ StartRecordingSession
    \/ StartRecordingClick
    \/ GetUserMediaResolved
    \/ GetUserMediaRejected
    \/ StopRecordingClick
    \/ RecorderStopped
    \/ PostProcessingSettled
    \/ NextLineTimer
    \/ NextLineClick
    \/ SkipLineClick
    \/ PreviousLineClick
    \/ RerecordLineClick
    \/ FinishRecordingClick
    \/ RecognitionResult
    \/ RecognitionEnd

RecSpec == RecInit /\ [][RecNext]_vars

Next ==
    \/ StartProduction
    \/ PauseProduction
    \/ StopProduction
    \/ UpdateTimer
    \/ AdvanceTimer
    \/ RestartTimer
    \/ SpeechTimeout
    \/ AudioEnded
    \/ AudioError
    \/ RecognitionResult
    \/ RecognitionEnd

Spec == Init /\ [][Next]_vars

(***************************************************************************)
(* A production pass that is left alone: no pause, no stop, and a silent   *)
(* user.  Started clips end and scheduled timers fire.                     *)
(***************************************************************************)
PassNext ==
    \/ StartProduction
    \/ UpdateTimer
    \/ RestartTimer
    \/ SpeechTimeout
    \/ AudioEnded
    \/ AudioError
    \/ RecognitionEnd

PassSpec ==
    /\ Init
    /\ [][PassNext]_vars
    /\ WF_vars(UpdateTimer)
    /\ WF_vars(RestartTimer)
    /\ WF_vars(SpeechTimeout)
    /\ WF_vars(AudioEnded)
    /\ WF_vars(RecognitionEnd)

(***************************************************************************)
(* The upload section: files are selected, dropped and processed.          *)
(***************************************************************************)
InitLoaded ==
    /\ dialogueLines = <<>>
    /\ recordCharacters = <<>>
    /\ speakCharacters = {}
    /\ audioRecordings = <<>>
    /\ playRecordings = TRUE
    /\ liveSpeaking = TRUE
    /\ section = "upload"
    /\ currentCharacter = ""
    /\ InitRecording
    /\ InitProduction
    /\ scriptText = ""
    /\ characters = {}
    /\ reading = <<>>

UploadInit ==
    /\ InitLoaded
    /\ hasRecognition \in BOOLEAN
    /\ inputFile = NoFile
    /\ scriptFileName = ""

UploadNext ==
    \/ SelectFile
    \/ DropFile
    \/ ProcessScriptClick
    \/ FileTextResolved

UploadSpec == UploadInit /\ [][UploadNext]_vars

(***************************************************************************)
(* The parser applied to the script texts: script.txt has been selected    *)
(* and is processed.                                                       *)
(***************************************************************************)
ParseInit ==
    /\ InitLoaded
    /\ hasRecognition = TRUE
    /\ inputFile \in {[name |-> "script.txt", text |-> t] : t \in ScriptTexts}
    /\ scriptFileName = "script.txt"

ParseNext ==
    \/ ProcessScriptClick
    \/ FileTextResolved

ParseSpec == ParseInit /\ [][ParseNext]_vars

(***************************************************************************)
(* Claims.                                                                 *)
(***************************************************************************)
currentLine == dialogueLines[productionLineIndex + 1]

onLine == productionLineIndex < Len(dialogueLines)

clipStarted == \E n \in BagToSet(playing') : CopiesIn(n, playing') > CopiesIn(n, playing)

recognitionStarted == recState' = "started" /\ recState # "started"

\* C1: in a pass that is never paused or stopped, every presentation shows
\* the line after the one shown before, and the pass completes only after
\* the last line was shown.
C1_EveryLinePresentedInOrder ==
    [][(clean /\ clean') =>
          /\ (shown' # shown => shown' = shown + 1)
          /\ (isProductionMode /\ ~isProductionMode' => shown' = Len(dialogueLines) - 1)]_vars

\* C2: from stopProduction until the next startProduction, production is
\* off, the index is 0, the speech timeout is cleared, no clip starts and
\* recognition is not started.
C2_StopHalts ==
    [][lastCommand' = "stop" =>
          /\ ~isProductionMode'
          /\ productionLineIndex' = 0
          /\ speechTimeout' = "null"
          /\ ~clipStarted
          /\ ~recognitionStarted]_vars

\* C3: from pauseProduction until the next startProduction the index does
\* not change and no clip starts playing.
C3_PauseFreezes ==
    [][lastCommand' = "pause" =>
          /\ productionLineIndex' = productionLineIndex
          /\ ~clipStarted]_vars

\* C4: startProduction after pauseProduction presents the line at which
\* production was paused, not an earlier one.
C4_ResumeAtPausedLine ==
    [][(lastCommand = "pause" /\ lastCommand' = "start" /\ onLine) =>
          shown' = productionLineIndex]_vars

\* C5: a started pass eventually completes.
C5_PassCompletes ==
    [](lastCommand = "start" =>
          <>(~isProductionMode /\ productionLineIndex >= Len(dialogueLines)))

\* C6: production waiting on a live line with a silent user eventually
\* leaves that line.
C6_LiveWaitBounded ==
    \A k \in 0..(MaxLines - 1) :
        [](( /\ isProductionMode /\ productionLineIndex = k /\ shown = k
             /\ onLine /\ lineBranch(dialogueLines[k + 1]) = "live")
           => <>(productionLineIndex # k))

\* C7: in a pass that is never paused or stopped, while the clip of the
\* current recorded line is playing, the index changes only by that clip
\* ending or failing.
C7_OnlyClipEndAdvances ==
    [][( /\ clean /\ clean'
         /\ isProductionMode /\ onLine /\ shown = productionLineIndex
         /\ lineBranch(currentLine) = "recorded"
         /\ CopiesIn(currentLine.number, playing) > 0
         /\ productionLineIndex' # productionLineIndex)
       => CopiesIn(currentLine.number, playing') < CopiesIn(currentLine.number, playing)]_vars

\* C8: in a pass that is never paused or stopped, a transcript delivered
\* while the current line is a recorded or a skipped line neither advances
\* the index nor schedules an advance.
C8_TranscriptOnlyAdvancesLiveLine ==
    [][( /\ clean /\ RecognitionResult /\ isProductionMode
         /\ onLine /\ lineBranch(currentLine) # "live")
       => /\ productionLineIndex' = productionLineIndex
          /\ pending(timers', "advance") = pending(timers, "advance")]_vars

\* C9: presenting a line of the skip branch (by the 500 ms callback, or by
\* startProduction for the first line) advances past it in the same step,
\* sets the callback that presents the next line, starts no clip and does
\* not start recognition.
C9_SkipAdvancesAtOnce ==
    [][ /\ ( /\ UpdateTimer /\ onLine /\ lineBranch(currentLine) = "skip")
           => /\ shown' = productionLineIndex
              /\ productionLineIndex' = productionLineIndex + 1
              /\ pending(timers', "update") = pending(timers, "update")
              /\ ~clipStarted
              /\ ~recognitionStarted
        /\ ( /\ StartProduction /\ lineBranch(dialogueLines[1]) = "skip")
           => /\ shown' = 0
              /\ productionLineIndex' = 1
              /\ pending(timers', "update") = pending(timers, "update") + 1
              /\ ~clipStarted
              /\ ~recognitionStarted ]_vars

\* A pass that was never interrupted has presented a skipped line after the
\* first one and is past it, with the next presentation pending.
C9_Witness ==
    /\ clean /\ isProductionMode
    /\ shown >= 1 /\ shown < Len(dialogueLines)
    /\ lineBranch(dialogueLines[shown + 1]) = "skip"
    /\ productionLineIndex = shown + 1
    /\ pending(timers, "update") = 1

\* C10: a stored clip is kept under the character and line number that were
\* current when its recording was stopped; stated for the recordings whose
\* onstop ran while that line was still current, so that only the time the
\* effect post-processing takes separates the stop from the store.
C10_ClipKeyedByStoppedLine ==
    \A c \in DOMAIN audioRecordings : \A n \in DOMAIN audioRecordings[c] :
        LET blob == audioRecordings[c][n]
        IN  blob.seen = Pair(blob.character, blob.number)
                => (blob.character = c /\ blob.number = n)

\* C11: the lines of the record characters, characters in the order they were
\* selected and lines in script order, form the walk of the recording
\* session: startRecordingSession shows the first line of the walk, every
\* nextLine in the recording section shows the line after the current one,
\* and the nextLine on the last line of the walk finishes the session.
C11_WalkVisitsEveryLineOnce ==
    [][LET RECURSIVE walk(_)
           walk(k) == IF k = 0 THEN <<>>
                      ELSE walk(k - 1) \o linesOf(dialogueLines, recordCharacters[k])
           order == walk(Len(recordCharacters))
           before(c) == Len(walk(indexOf(recordCharacters, c)))
           distinct == \A i, j \in 1..Len(order) : i # j => order[i] # order[j]
           complete == \A l \in Range(dialogueLines) :
                           recordHas(l.character) => l \in Range(order)
           at(p) == /\ section' = "recording"
                    /\ currentCharacter' = order[p].character
                    /\ linesOf(dialogueLines, currentCharacter')[currentLineIndex' + 1] = order[p]
                    /\ before(currentCharacter') + currentLineIndex' + 1 = p
       IN  /\ distinct /\ complete
           /\ StartRecordingSession => at(1)
           /\ (section = "recording" /\ (SkipLineClick \/ NextLineClick \/ NextLineTimer))
                 => LET p == before(currentCharacter) + currentLineIndex + 1
                    IN  IF p < Len(order) THEN at(p + 1) ELSE section' = "playback" ]_vars

\* The walk over two record characters has reached its end: the session is
\* finished on the last line of the character selected last.
C11_Witness ==
    /\ section = "playback"
    /\ Len(recordCharacters) = 2
    /\ Len(dialogueLines) = MaxLines
    /\ currentCharacter = recordCharacters[2]
    /\ currentLineIndex = Len(linesOf(dialogueLines, currentCharacter)) - 1
    /\ lastCommand = "none"

\* C12: while a recording is in progress, a transcript stops the recording
\* exactly when it contains one of the trigger words "done", "finished",
\* "complete"; any other transcript leaves the recording running.
C12_TriggerWordStopsRecording ==
    [][\A t \in Transcripts :
          ( /\ isRecording
            /\ recState \in {"started", "stopping"} /\ ~resultDelivered
            /\ Commit(onresult(Cur, t), "") )
          => LET said == \E w \in {"done", "finished", "complete"} :
                             includes(toLowerCase(t), w)
             IN  isRecording' = ~said]_vars

\* C13: the microphone is in use only while recording: whenever a recorder
\* is capturing (its stream is stopped at the end of onstop) or the
\* recogniser is listening, isRecording is true.
C13_MicrophoneOnlyWhileRecording ==
    LET capturing == \/ recorder.state = "recording"
                     \/ orphans > 0
                     \/ Len(stopped) > 0
                     \/ Len(processing) > 0
        listening == recState = "started"
    IN  (capturing \/ listening) => isRecording

\* C14: the records parseDialogue returns are numbered 1, 2, 3, ... in the
\* order of their appearance: the i-th record has number i.
C14_RecordsNumberedFromOne ==
    \A i \in 1..Len(dialogueLines) : dialogueLines[i].number = i

\* A processed script with records of two characters.
C14_Witness ==
    /\ section = "character"
    /\ scriptText # ""
    /\ Len(dialogueLines) >= 2
    /\ dialogueLines[1].character # dialogueLines[2].character

\* C15: the character set parseDialogue returns is the set of the characters
\* of the records it returns.
C15_CharactersAreThoseOfRecords ==
    characters = scriptCharacters(dialogueLines)

\* A processed script that names BOB without a dialogue line of BOB.
C15_Witness ==
    /\ section = "character"
    /\ seqIncludes(textLinesOf(scriptText), "BOB")
    /\ characters = {"ANNA"}

\* C16: in a processed script, a text line that follows a character-name
\* line and satisfies the dialogue predicate, and is no scene heading,
\* character description or character name, is a record of that character.
C16_DialogueAfterNameIsRecorded ==
    section = "character" =>
        LET textLines == textLinesOf(scriptText)
        IN  \A i \in 2..Len(textLines) :
                ( /\ isCharacterName(textLines[i - 1])
                  /\ ~isSceneHeading(textLines[i])
                  /\ ~isCharacterDescription(textLines[i])
                  /\ ~isCharacterName(textLines[i])
                  /\ isDialogue(textLines[i]) )
                => \E k \in 1..Len(dialogueLines) :
                       /\ dialogueLines[k].character = textLines[i - 1]
                       /\ dialogueLines[k].dialogue = textLines[i]

\* C17: in a processed script, a text line "NAME: text" whose NAME is made of
\* words in capitals or of words in Title Case yields a record with
\* character NAME and dialogue text.
C17_ColonLineIsRecorded ==
    section = "character" =>
        LET textLines == textLinesOf(scriptText)
            colon(l) == CHOOSE i \in 1..Len(l) :
                            /\ SubSeq(l, i, i) = ":"
                            /\ \A j \in 1..(i - 1) : SubSeq(l, j, j) # ":"
            name(l) == trim(SubSeq(l, 1, colon(l) - 1))
            text(l) == trim(SubSeq(l, colon(l) + 1, Len(l)))
            titleWord(w) ==
                /\ Len(w) >= 2
                /\ isUpper(charAt(w, 1))
                /\ \A i \in 2..Len(w) : \E u \in UpperLetters :
                       charAt(w, i) = lowerChar(u) /\ charAt(w, i) # u
            form(l) ==
                /\ includes(l, ":")
                /\ text(l) # ""
                /\ LET words == split(name(l))
                   IN  \/ \A i \in 1..Len(words) : allCapsWord(words[i])
                       \/ \A i \in 1..Len(words) : titleWord(words[i])
        IN  \A i \in 1..Len(textLines) :
                form(textLines[i])
                => \E k \in 1..Len(dialogueLines) :
                       /\ dialogueLines[k].character = name(textLines[i])
                       /\ dialogueLines[k].dialogue = text(textLines[i])

\* C18: processScript parses only files whose name ends in .txt or
\* .fountain: the file whose text it stores and parses is a supported one.
C18_OnlySupportedFileParsed ==
    [][FileTextResolved => isSupportedFile(Head(reading))]_vars

\* C19: once a file has been accepted, by the file input or by a drop, the
\* file the next processScript reads (the one in #scriptInput) is that file.
C19_AcceptedFileIsProcessed ==
    scriptFileName # "" => inputFile.name = scriptFileName

\* C20: productionLineIndex stays within 0..dialogueLines.length.
C20_IndexWithinScript ==
    productionLineIndex >= 0 /\ productionLineIndex <= Len(dialogueLines)

\* C21: once a first pass that was never paused or stopped has completed
\* (updateProductionInterface found the index at the end of the script and
\* left production mode), the index and the mode change no more while no
\* button is pressed.
C21_CompletedPassStays ==
    [][( /\ clean /\ clean'
         /\ lastCommand = "start"
         /\ ~isProductionMode /\ buttons.stop
         /\ productionLineIndex >= Len(dialogueLines) )
       => /\ productionLineIndex' = productionLineIndex
          /\ isProductionMode' = isProductionMode]_vars

\* C22: in a pass that is never paused or stopped, when the 30 s speech
\* timeout advances production, the current line is the line that was
\* current when the timeout was armed.  Stated for a timeout that runs when
\* every shorter callback has run, as its 30 s outlast them.
C22_TimeoutAdvancesItsLine ==
    [][( /\ clean /\ SpeechTimeout
         /\ timers = <<"timeout">>
         /\ productionLineIndex' # productionLineIndex )
       => timeoutLine = productionLineIndex]_vars

\* C23: presenting a line whose character is both a record and a speak
\* character, with playRecordings checked (by the 500 ms callback, or by
\* startProduction for the first line), does not start recognition: it
\* starts the clip stored for the line and stays on the line, or, without a
\* clip, advances in the same step.
C23_RecordedBeforeLive ==
    [][\A k \in 0..(Len(dialogueLines) - 1) :
          LET line == dialogueLines[k + 1]
          IN  ( /\ \/ UpdateTimer /\ productionLineIndex = k
                   \/ StartProduction /\ k = 0
                /\ playRecordings
                /\ recordHas(line.character)
                /\ line.character \in speakCharacters )
              => /\ shown' = k
                 /\ ~recognitionStarted
                 /\ IF hasClip(audioRecordings, line.character, line.number)
                    THEN /\ CopiesIn(line.number, playing') = CopiesIn(line.number, playing) + 1
                         /\ productionLineIndex' = k
                    ELSE /\ ~clipStarted
                         /\ productionLineIndex' = k + 1]_vars

\* With both checkboxes checked, the clip of a line whose character is both
\* a record and a speak character is playing and the recogniser is idle.
C23_Witness ==
    /\ clean /\ isProductionMode /\ onLine
    /\ shown = productionLineIndex
    /\ playRecordings /\ liveSpeaking /\ hasRecognition
    /\ recordHas(currentLine.character)
    /\ currentLine.character \in speakCharacters
    /\ CopiesIn(currentLine.number, playing) = 1
    /\ recState = "idle"

\* C24: in a pass that is never paused or stopped, a transcript without a
\* completion word delivered (resultDelivered becomes true) while production
\* waits on the live line it has presented leaves the index unchanged, and
\* sets the 1 s advance callback exactly when two of its significant words
\* (longer than 3 letters) are words of the dialogue, or one is and it has
\* at most 3 significant words, or the dialogue has at most 2 words and the
\* transcript is not empty.
C24_MatchSchedulesAdvance ==
    [][( /\ ~resultDelivered /\ resultDelivered'
         /\ clean /\ isProductionMode /\ onLine
         /\ shown = productionLineIndex
         /\ lineBranch(currentLine) = "live" )
       => \A t \in PlainTranscripts :
             Commit(onresult(Cur, t), "")
             => LET spoken == significant(split(toLowerCase(t)))
                    wanted == significant(split(toLowerCase(currentLine.dialogue)))
                    matching == Cardinality({i \in 1..Len(spoken) : seqIncludes(wanted, spoken[i])})
                    scheduled == \/ matching >= 2
                                 \/ matching >= 1 /\ Len(spoken) <= 3
                                 \/ Len(split(currentLine.dialogue)) <= 2 /\ t # ""
                IN  /\ productionLineIndex' = productionLineIndex
                    /\ pending(timers', "advance") =
                          pending(timers, "advance") + (IF scheduled THEN 1 ELSE 0)]_vars

\* On the second line, a live line of more than two words, a transcript has
\* set the advance callback and the index has not moved.
C24_Witness ==
    /\ clean /\ isProductionMode
    /\ productionLineIndex = 1 /\ shown = 1 /\ onLine
    /\ lineBranch(currentLine) = "live"
    /\ resultDelivered
    /\ pending(timers, "advance") = 1
    /\ pending(timers, "update") = 0

\* C25: a stopped recording ends as a clip stored for its line: when onstop
\* stores the clip of a recording that was stopped on a line, and that line
\* was still current when onstop ran, the clip is afterwards found under the
\* character and number of that line, whether the effect was "none", was
\* applied, or failed.
C25_StoppedRecordingIsStored ==
    [][LET storedFor(p) ==
               /\ hasClip(audioRecordings', p.character, p.number)
               /\ audioRecordings'[p.character][p.number].character = p.character
               /\ audioRecordings'[p.character][p.number].number = p.number
       IN  /\ \A i \in 1..Len(processing) :
                 ( /\ PostProcessingSettled
                   /\ processing' = without(processing, i)
                   /\ processing[i].seen = processing[i].at )
                 => storedFor(processing[i].at)
           /\ \A i \in 1..Len(stopped) :
                 ( /\ RecorderStopped
                   /\ stopped' = without(stopped, i)
                   /\ stopped[i].effect = "none"
                   /\ stopped[i].at = currentPair(Cur) )
                 => storedFor(stopped[i].at)]_vars

====
